---- MODULE Spec2Model ----
(***************************************************************************)
(* Video2Sound: the audio assembly code (PCM decoding, the timeline        *)
(* stitcher, the track mixer, the WAV writers) as state machines.          *)
(*                                                                         *)
(* Conventions of the model                                                *)
(*  - A byte buffer (Uint8Array) is a sequence over 0..255.                *)
(*  - A Float32 sample f is the integer f * 32768.  Every float the code   *)
(*    handles here is k/32768 with |k| < 2^24 (int16 values divided by     *)
(*    32768.0 and sums of a few of them), which Float32 holds exactly, so  *)
(*    float addition is exact integer addition of the numerators.          *)
(*  - Clip times are whole sample frames (time * sampleRate is an          *)
(*    integer); totalDuration is counted in ticks of 1/TicksPerFrame of a  *)
(*    frame so that Math.ceil has something to round.                      *)
(***************************************************************************)
EXTENDS Integers, Sequences, FiniteSets, TLC

VARIABLES
  clips,            \* stitchAudioClips: parameter clips
  totalDuration,    \* stitchAudioClips: parameter totalDuration, in ticks
  stitchPc,         \* stitchAudioClips: position of the async function
  tempCtx,          \* stitchAudioClips: state of the temporary AudioContext
  decodedBuffers,   \* stitchAudioClips: results of the decodeAudioData calls
  renderedBuffer,   \* stitchAudioClips: the OfflineAudioContext's rendering
  stitchBlob,       \* stitchAudioClips: PCM samples of the returned WAV blob
  stitchErr,        \* stitchAudioClips: the error the promise rejected with
  tracks,           \* mixAudio: parameter tracks
  mixed,            \* mixAudio: the returned Uint8Array
  mixPc,            \* mixAudio: called or not
  pcmData,          \* createWavBlob: parameter pcmData
  sampleRate,       \* createWavBlob: parameter sampleRate, in base-256 digits
  numChannels,      \* createWavBlob: parameter numChannels
  bitsPerSample,    \* createWavBlob: parameter bitsPerSample
  wavBlob,          \* createWavBlob: bytes of the returned blob
  wavPc,            \* createWavBlob: called or not
  decData,          \* decodeAudioData: parameter data
  decChannels,      \* decodeAudioData: parameter numChannels
  decBuffer,        \* decodeAudioData: channel data of the returned AudioBuffer
  decPc,            \* decodeAudioData: called, returned or thrown
  b64Bytes,         \* encode: parameter bytes
  b64Text,          \* encode's result, decode's parameter base64
  b64Decoded,       \* decode: the returned Uint8Array
  b64Pc,            \* encode / decode: which call is next, or how decode ended
  script,           \* parseScript: parameter script
  parsed,           \* parseScript: the returned DialogueLine list
  parsePc,          \* parseScript: called or not
  videoFile,        \* App state: a video is selected
  videoEl,          \* the video element: readyState, duration (<<>> for NaN,
                    \* else <<Infinity>> or <<a number of ticks>>)
  generatedAudioUrl,\* App state: <<>> for null, else <<the blob's samples>>
  isLoading,        \* App state
  loadingStep,      \* App state
  error,            \* App state: "none" for null, else the message
  dialogueScript,   \* App state
  retryAfter,       \* App state: seconds left of the retry countdown
  retryAttempts,    \* App state
  flowPc,           \* handleGenerateDialogue: the await it is suspended at
  apiScript,        \* handleGenerateDialogue: script, <<>> until it is there
  parsedLines,      \* handleGenerateDialogue: parsedLines
  synthResponse,    \* what generateAudioForDialogueLine resolves with, per line
  settledClips,     \* handleGenerateDialogue: the promises given to Promise.all
  settleOrder,      \* the lines in the order their speech requests came back
  audioClips,       \* handleGenerateDialogue: audioClips
  videoDuration,    \* handleGenerateDialogue: videoDuration, <<>> until resolved
  err               \* handleGenerateDialogue: the error caught, "none" if none

stitchVars == <<clips, totalDuration, stitchPc, tempCtx, decodedBuffers,
                renderedBuffer, stitchBlob, stitchErr>>
mixVars == <<tracks, mixed, mixPc>>
wavVars == <<pcmData, sampleRate, numChannels, bitsPerSample, wavBlob, wavPc>>
decVars == <<decData, decChannels, decBuffer, decPc>>
b64Vars == <<b64Bytes, b64Text, b64Decoded, b64Pc>>
parseVars == <<script, parsed, parsePc>>
flowVars == <<videoFile, videoEl, generatedAudioUrl, isLoading, loadingStep,
              error, dialogueScript, retryAfter, retryAttempts, flowPc,
              apiScript, parsedLines, synthResponse, settledClips, settleOrder,
              audioClips, videoDuration, err>>
laterVars == <<decVars, b64Vars, parseVars, flowVars>>
vars == <<stitchVars, mixVars, wavVars, laterVars>>

(***************************************************************************)
(* Bounds of the model.                                                    *)
(***************************************************************************)
MaxClips == 2         \* clips per stitchAudioClips call
MaxClipBytes == 4     \* bytes per clip
MaxTime == 1          \* largest clip time, in frames
MaxDuration == 3      \* largest totalDuration, in ticks
TicksPerFrame == 2    \* resolution of totalDuration
MaxTracks == 2        \* tracks per mixAudio call
MaxTrackBytes == 4    \* bytes per track
MaxPcmBytes == 2      \* bytes of a createWavBlob payload
MaxDecodeSamples == 4 \* 16-bit samples of a decodeAudioData payload
MaxChannels == 2      \* largest numChannels of a decodeAudioData call
MaxB64Bytes == 4      \* bytes of an encode call
MaxB64Chars == 4      \* characters of a text handed to decode directly
MaxScriptLines == 2   \* lines of a parseScript input
MaxFlowLines == 2     \* lines of a script the flow receives
MaxRetryAttempts == 1 \* rate limit errors in a row in the whole flow
MaxBackoffs == 6      \* rate limit errors in a row where the backoff is followed

(***************************************************************************)
(* 16-bit PCM samples and their bytes.                                     *)
(***************************************************************************)
Int16Min == -32768
Int16Max == 32767
FloatOne == 32768     \* the float 1.0 in the model's unit of 1/32768

Min(a, b) == IF a < b THEN a ELSE b
Max(a, b) == IF a > b THEN a ELSE b

\* Number -> Int16 as a typed array or DataView.setInt16 stores it (modulo 2^16).
ToInt16(x) == ((x + 32768) % 65536) - 32768

\* Truncation toward zero of a / b (b > 0): what "| 0" does to a quotient.
TruncDiv(a, b) == IF a >= 0 THEN a \div b ELSE -((-a) \div b)

\* The two little-endian bytes of a 16-bit sample.
SampleBytes(s) == LET u == s % 65536 IN <<u % 256, u \div 256>>

RECURSIVE PcmBytes(_)
PcmBytes(samples) ==
  IF samples = <<>> THEN <<>>
  ELSE SampleBytes(Head(samples)) \o PcmBytes(Tail(samples))

\* new Int16Array(data.buffer, data.byteOffset, data.byteLength / 2): the length
\* argument goes through ToIndex, which truncates a fractional length, so a
\* trailing odd byte is not part of the view.
Int16Array(data) ==
  [i \in 1..(Len(data) \div 2) |->
     LET u == data[2 * i - 1] + 256 * data[2 * i]
     IN IF u >= 32768 THEN u - 65536 ELSE u]

\* decodeAudioData: frameCount = dataInt16.length / numChannels; createBuffer
\* takes the length as an unsigned long (fraction dropped) and throws
\* NotSupportedError for a length of 0; channel c, frame i is
\* dataInt16[i * numChannels + c] / 32768.0.
FrameCount(data, nCh) == Len(Int16Array(data)) \div nCh

DecodeFails(data, nCh) == FrameCount(data, nCh) = 0

DecodeAudioDataPlanar(data, nCh) ==
  LET dataInt16 == Int16Array(data)
  IN [channel \in 1..nCh |->
        [i \in 1..FrameCount(data, nCh) |->
           (dataInt16[(channel - 1) * FrameCount(data, nCh) + i] * FloatOne)
             \div 32768]]

DecodeAudioData(data, nCh) ==
  LET dataInt16 == Int16Array(data)
  IN [channel \in 1..nCh |->
        [i \in 1..FrameCount(data, nCh) |->
           (dataInt16[(i - 1) * nCh + channel] * FloatOne) \div 32768]]

(***************************************************************************)
(* audioBufferToWavBlob, the sample loop.                                  *)
(***************************************************************************)
\* sample = Math.max(-1, Math.min(1, x));
\* sample = (0.5 + sample < 0 ? sample * 32768 : sample * 32767) | 0;
\* view.setInt16(pos, sample, true)
FloatToPcm(x) ==
  LET sample == Max(-FloatOne, Min(FloatOne, x))
      scaled == IF (FloatOne \div 2) + sample < 0
                THEN sample * 32768
                ELSE sample * 32767
  IN ToInt16(TruncDiv(scaled, FloatOne))

AudioBufferToWavBlob(buffer) == [i \in 1..Len(buffer) |-> FloatToPcm(buffer[i])]

(***************************************************************************)
(* stitchAudioClips.                                                       *)
(***************************************************************************)
\* Number.POSITIVE_INFINITY among the durations, which are counted in ticks.
Infinity == -1

\* Mutant of OfflineLength: Math.floor in place of Math.ceil.
OfflineLengthFloor(d) == d \div TicksPerFrame

\* Math.ceil(totalDuration * sampleRate), totalDuration in ticks, as the
\* constructor of line 244 takes it: its unsigned long length is 0 for
\* Infinity.
OfflineLength(d) ==
  IF d = Infinity THEN 0 ELSE (d + TicksPerFrame - 1) \div TicksPerFrame

\* Mutant of StartError: a negative when is accepted.
StartErrorNoRange(clip) == IF ~clip.finite THEN "TypeError" ELSE "none"

\* source.start(when) throws TypeError for a non-finite and RangeError for a
\* negative when.
StartError(clip) ==
  IF ~clip.finite THEN "TypeError"
  ELSE IF clip.time < 0 THEN "RangeError"
  ELSE "none"

\* The value a started source contributes to output frame f (0-based).
SourceAt(src, f) ==
  LET k == f - src.startFrame
  IN IF k >= 0 /\ k < Len(src.buffer) THEN src.buffer[k + 1] ELSE 0

\* Mutant of AddSource: a playing source replaces what is already in the mix.
AddSourceOverwrite(buf, src) ==
  [f \in 1..Len(buf) |->
     IF f - 1 >= src.startFrame /\ f - 1 < src.startFrame + Len(src.buffer)
     THEN SourceAt(src, f - 1)
     ELSE buf[f]]

\* One source summed into the destination's mix.
AddSource(buf, src) == [f \in 1..Len(buf) |-> buf[f] + SourceAt(src, f - 1)]

\* The destination sums its connected sources, in connection order.
RECURSIVE MixSources(_, _)
MixSources(srcs, buf) ==
  IF srcs = <<>> THEN buf
  ELSE MixSources(Tail(srcs), AddSource(buf, Head(srcs)))

\* decodedBuffers.forEach(...): one source per buffer, started at its clip's time.
Sources(bufs, cl) ==
  [i \in 1..Len(bufs) |-> [buffer |-> bufs[i][1], startFrame |-> cl[i].time]]

\* offlineCtx.startRendering(): length frames, silence where nothing plays.
Render(srcs, length) == MixSources(srcs, [f \in 1..length |-> 0])

\* Index of the first clip whose start() throws, 0 if none does.
FirstStartError(cl) ==
  IF \E i \in 1..Len(cl) : StartError(cl[i]) # "none"
  THEN CHOOSE i \in 1..Len(cl) :
         /\ StartError(cl[i]) # "none"
         /\ \A j \in 1..(i - 1) : StartError(cl[j]) = "none"
  ELSE 0

\* decodedBuffers of line 246: one AudioBuffer (its channels) per clip.
DecodeAll(cl) == [i \in 1..Len(cl) |-> DecodeAudioData(cl[i].audioData, 1)]

AnyDecodeFails(cl) == \E i \in 1..Len(cl) : DecodeFails(cl[i].audioData, 1)

\* Line 244 throws: an OfflineAudioContext of 0 frames is not supported, and
\* the function leaves with the AudioContext of line 243 as it is.
StitchContextThrows ==
  /\ stitchPc = "start"
  /\ OfflineLength(totalDuration) = 0
  /\ tempCtx' = "open"
  /\ stitchPc' = "failed"
  /\ stitchErr' = "NotSupportedError"
  /\ UNCHANGED <<clips, totalDuration, decodedBuffers, renderedBuffer, stitchBlob>>
  /\ UNCHANGED <<mixVars, wavVars, laterVars>>

\* Lines 243-248 throw: createBuffer rejects a clip of no whole sample, the
\* Promise.all rejects and the function leaves with the contexts as they are.
StitchDecodeRejected ==
  /\ stitchPc = "start"
  /\ OfflineLength(totalDuration) > 0
  /\ AnyDecodeFails(clips)
  /\ tempCtx' = "open"
  /\ stitchPc' = "failed"
  /\ stitchErr' = "NotSupportedError"
  /\ UNCHANGED <<clips, totalDuration, decodedBuffers, renderedBuffer, stitchBlob>>
  /\ UNCHANGED <<mixVars, wavVars, laterVars>>

\* Lines 243-255 throw: every clip decodes, a clip's start() rejects its time.
StitchStartThrows ==
  /\ stitchPc = "start"
  /\ OfflineLength(totalDuration) > 0
  /\ ~AnyDecodeFails(clips)
  /\ FirstStartError(clips) # 0
  /\ tempCtx' = "open"
  /\ decodedBuffers' = DecodeAll(clips)
  /\ stitchPc' = "failed"
  /\ stitchErr' = StartError(clips[FirstStartError(clips)])
  /\ UNCHANGED <<clips, totalDuration, renderedBuffer, stitchBlob>>
  /\ UNCHANGED <<mixVars, wavVars, laterVars>>

\* Lines 243-257: the contexts are created, every clip is decoded, every source
\* is started and the rendering runs.
StitchRender ==
  /\ stitchPc = "start"
  /\ OfflineLength(totalDuration) > 0
  /\ ~AnyDecodeFails(clips)
  /\ FirstStartError(clips) = 0
  /\ tempCtx' = "open"
  /\ decodedBuffers' = DecodeAll(clips)
  /\ renderedBuffer' =
       Render(Sources(DecodeAll(clips), clips), OfflineLength(totalDuration))
  /\ stitchPc' = "awaitRender"
  /\ UNCHANGED <<clips, totalDuration, stitchBlob, stitchErr>>
  /\ UNCHANGED <<mixVars, wavVars, laterVars>>

\* Lines 259-261: await tempCtx.close(); return audioBufferToWavBlob(renderedBuffer).
StitchReturn ==
  /\ stitchPc = "awaitRender"
  /\ tempCtx' = "closed"
  /\ stitchBlob' = AudioBufferToWavBlob(renderedBuffer)
  /\ stitchPc' = "done"
  /\ UNCHANGED <<clips, totalDuration, decodedBuffers, renderedBuffer, stitchErr>>
  /\ UNCHANGED <<mixVars, wavVars, laterVars>>

(***************************************************************************)
(* mixAudio.                                                               *)
(***************************************************************************)
\* Mutant of SampleSum: each track's sample replaces the sum so far.
RECURSIVE SampleSumLastWins(_, _)
SampleSumLastWins(int16Tracks, i) ==
  IF int16Tracks = <<>> THEN 0
  ELSE IF Len(int16Tracks) = 1
       THEN (IF i < Len(Head(int16Tracks)) THEN Head(int16Tracks)[i + 1] ELSE 0)
       ELSE SampleSumLastWins(Tail(int16Tracks), i)

\* Lines 59-64: sampleSum over the tracks, in order, that are longer than i.
RECURSIVE SampleSum(_, _)
SampleSum(int16Tracks, i) ==
  IF int16Tracks = <<>> THEN 0
  ELSE (IF i < Len(Head(int16Tracks)) THEN Head(int16Tracks)[i + 1] ELSE 0)
       + SampleSum(Tail(int16Tracks), i)

\* Mutant of MixedSample: the sum is stored without clamping.
MixedSampleWrap(sampleSum) == ToInt16(sampleSum)

\* Line 66: Math.max(-32768, Math.min(32767, sampleSum)), stored in an Int16Array.
MixedSample(sampleSum) == ToInt16(Max(-32768, Min(32767, sampleSum)))

\* Line 55: Math.max(...lengths).
RECURSIVE MaxLength(_)
MaxLength(int16Tracks) ==
  IF int16Tracks = <<>> THEN 0
  ELSE Max(Len(Head(int16Tracks)), MaxLength(Tail(int16Tracks)))

MixAudioNoShortcut(tr) ==
  IF Len(tr) = 0 THEN <<>>
  ELSE LET int16Tracks == [t \in 1..Len(tr) |-> Int16Array(tr[t])]
           maxLength == MaxLength(int16Tracks)
       IN PcmBytes([i \in 1..maxLength |->
                      MixedSample(SampleSum(int16Tracks, i - 1))])

MixAudio(tr) ==
  IF Len(tr) = 0 THEN <<>>
  ELSE IF Len(tr) = 1 THEN tr[1]
  ELSE LET int16Tracks == [t \in 1..Len(tr) |-> Int16Array(tr[t])]
           maxLength == MaxLength(int16Tracks)
       IN PcmBytes([i \in 1..maxLength |->
                      MixedSample(SampleSum(int16Tracks, i - 1))])

CallMixAudio ==
  /\ mixPc = "start"
  /\ mixed' = MixAudio(tracks)
  /\ mixPc' = "done"
  /\ UNCHANGED tracks
  /\ UNCHANGED <<stitchVars, wavVars, laterVars>>

(***************************************************************************)
(* createWavBlob.                                                          *)
(***************************************************************************)
\* A JavaScript number that may exceed TLC's integers is held as its base-256
\* digits, least significant first; Digits(n, k) are the k low digits of n.
RECURSIVE Digits(_, _)
Digits(n, k) ==
  IF k = 0 THEN <<>> ELSE <<n % 256>> \o Digits(n \div 256, k - 1)

\* ds * m + carry, in as many digits as ds has.
RECURSIVE TimesSmall(_, _, _)
TimesSmall(ds, m, carry) ==
  IF ds = <<>> THEN <<>>
  ELSE LET v == Head(ds) * m + carry
       IN <<v % 256>> \o TimesSmall(Tail(ds), m, v \div 256)

\* Quotient q and remainder r of ds by m.
RECURSIVE DivRem(_, _)
DivRem(ds, m) ==
  IF ds = <<>> THEN [q |-> <<>>, r |-> 0]
  ELSE LET hi == DivRem(Tail(ds), m)
           v == hi.r * 256 + Head(ds)
       IN [q |-> <<v \div m>> \o hi.q, r |-> v % m]

\* Mutants of Uint16LE and Uint32LE: big-endian stores.
Uint16BE(ds) == <<ds[2], ds[1]>>

Uint32BE(ds) == <<ds[4], ds[3], ds[2], ds[1]>>

\* DataView.setUint16 / setUint32 (littleEndian = true): the number is
\* truncated to an integer and taken modulo 2^16 / 2^32, low byte first.
Uint16LE(ds) == <<ds[1], ds[2]>>

Uint32LE(ds) == <<ds[1], ds[2], ds[3], ds[4]>>

\* Line 97: blockAlign = (numChannels * bitsPerSample) / 8, integer part.
BlockAlign(nCh, bits) == DivRem(TimesSmall(Digits(nCh, 8), bits, 0), 8).q

\* Line 98: byteRate = sampleRate * blockAlign, integer part (blockAlign keeps
\* its fraction in the product).
ByteRate(rate, nCh, bits) ==
  DivRem(TimesSmall(TimesSmall(rate \o <<0, 0, 0, 0, 0>>, nCh, 0), bits, 0), 8).q

\* Lines 93-124; rate is given in digits, the other numbers as integers.
CreateWavBlob(pcm, rate, nCh, bits) ==
  LET dataSize == Len(pcm)
  IN <<82, 73, 70, 70>>                       \* 'RIFF'
     \o Uint32LE(Digits(36 + dataSize, 4))
     \o <<87, 65, 86, 69>>                    \* 'WAVE'
     \o <<102, 109, 116, 32>>                 \* 'fmt '
     \o Uint32LE(Digits(16, 4))
     \o Uint16LE(Digits(1, 4))
     \o Uint16LE(Digits(nCh, 4))
     \o Uint32LE(rate)
     \o Uint32LE(ByteRate(rate, nCh, bits))
     \o Uint16LE(BlockAlign(nCh, bits))
     \o Uint16LE(Digits(bits, 4))
     \o <<100, 97, 116, 97>>                  \* 'data'
     \o Uint32LE(Digits(dataSize, 4))
     \o pcm

CallCreateWavBlob ==
  /\ wavPc = "start"
  /\ wavBlob' = CreateWavBlob(pcmData, sampleRate, numChannels, bitsPerSample)
  /\ wavPc' = "done"
  /\ UNCHANGED <<pcmData, sampleRate, numChannels, bitsPerSample>>
  /\ UNCHANGED <<stitchVars, mixVars, laterVars>>

(***************************************************************************)
(* decodeAudioData called on its own, with any channel count.              *)
(***************************************************************************)
\* ctx.createBuffer(numChannels, 0, sampleRate) throws NotSupportedError.
DecodeAudioDataThrows ==
  /\ decPc = "start"
  /\ DecodeFails(decData, decChannels)
  /\ decPc' = "failed"
  /\ UNCHANGED <<decData, decChannels, decBuffer>>
  /\ UNCHANGED <<stitchVars, mixVars, wavVars, b64Vars, parseVars, flowVars>>

CallDecodeAudioData ==
  /\ decPc = "start"
  /\ ~DecodeFails(decData, decChannels)
  /\ decBuffer' = DecodeAudioData(decData, decChannels)
  /\ decPc' = "done"
  /\ UNCHANGED <<decData, decChannels>>
  /\ UNCHANGED <<stitchVars, mixVars, wavVars, b64Vars, parseVars, flowVars>>

(***************************************************************************)
(* The base64 codec: encode (btoa of the bytes as characters) and decode   *)
(* (the character codes of atob's result).  A string is a sequence of      *)
(* one-character strings; a binary string is the sequence of its code      *)
(* units.                                                                  *)
(***************************************************************************)
B64Alphabet ==
  <<"A", "B", "C", "D", "E", "F", "G", "H", "I", "J", "K", "L", "M",
    "N", "O", "P", "Q", "R", "S", "T", "U", "V", "W", "X", "Y", "Z",
    "a", "b", "c", "d", "e", "f", "g", "h", "i", "j", "k", "l", "m",
    "n", "o", "p", "q", "r", "s", "t", "u", "v", "w", "x", "y", "z",
    "0", "1", "2", "3", "4", "5", "6", "7", "8", "9", "+", "/">>

B64Chars == {B64Alphabet[i] : i \in 1..64}

AsciiWhitespace == {" ", "\t", "\n", "\f", "\r"}

\* btoa: three code units make four characters; one or two left over make
\* two or three characters and "=" padding up to four.
RECURSIVE Btoa(_)
Btoa(binary) ==
  IF Len(binary) = 0 THEN <<>>
  ELSE IF Len(binary) = 1 THEN
    <<B64Alphabet[(binary[1] \div 4) + 1],
      B64Alphabet[(binary[1] % 4) * 16 + 1], "=", "=">>
  ELSE IF Len(binary) = 2 THEN
    <<B64Alphabet[(binary[1] \div 4) + 1],
      B64Alphabet[(binary[1] % 4) * 16 + (binary[2] \div 16) + 1],
      B64Alphabet[(binary[2] % 16) * 4 + 1], "=">>
  ELSE
    <<B64Alphabet[(binary[1] \div 4) + 1],
      B64Alphabet[(binary[1] % 4) * 16 + (binary[2] \div 16) + 1],
      B64Alphabet[(binary[2] % 16) * 4 + (binary[3] \div 64) + 1],
      B64Alphabet[(binary[3] % 64) + 1]>>
    \o Btoa(SubSeq(binary, 4, Len(binary)))

\* encode: binary += String.fromCharCode(bytes[i]); return btoa(binary).
Encode(bytes) == Btoa([i \in 1..Len(bytes) |-> bytes[i]])

\* atob (forgiving-base64 decode): ASCII whitespace is removed; if the length
\* is then a multiple of four, one or two "=" at the end are removed; a
\* length of 1 modulo 4 or a character outside the alphabet is an
\* InvalidCharacterError.
StripWhitespace(text) == SelectSeq(text, LAMBDA ch : ch \notin AsciiWhitespace)

Unpad(t) ==
  IF Len(t) > 0 /\ Len(t) % 4 = 0 /\ t[Len(t)] = "="
  THEN IF t[Len(t) - 1] = "=" THEN SubSeq(t, 1, Len(t) - 2)
       ELSE SubSeq(t, 1, Len(t) - 1)
  ELSE t

AtobFails(text) ==
  LET d == Unpad(StripWhitespace(text))
  IN \/ Len(d) % 4 = 1
     \/ \E i \in 1..Len(d) : d[i] \notin B64Chars

Sextet(ch) == CHOOSE v \in 0..63 : B64Alphabet[v + 1] = ch

\* Four characters make three code units; two or three left over make one or
\* two, the low 4 or 2 bits being discarded.
RECURSIVE SextetsToBinary(_)
SextetsToBinary(d) ==
  IF Len(d) < 2 THEN <<>>
  ELSE IF Len(d) = 2 THEN
    <<Sextet(d[1]) * 4 + (Sextet(d[2]) \div 16)>>
  ELSE IF Len(d) = 3 THEN
    <<Sextet(d[1]) * 4 + (Sextet(d[2]) \div 16),
      (Sextet(d[2]) % 16) * 16 + (Sextet(d[3]) \div 4)>>
  ELSE
    <<Sextet(d[1]) * 4 + (Sextet(d[2]) \div 16),
      (Sextet(d[2]) % 16) * 16 + (Sextet(d[3]) \div 4),
      (Sextet(d[3]) % 4) * 64 + Sextet(d[4])>>
    \o SextetsToBinary(SubSeq(d, 5, Len(d)))

AtobPadAsZero(text) ==
  SextetsToBinary([i \in 1..Len(StripWhitespace(text)) |->
                     IF StripWhitespace(text)[i] = "=" THEN "A"
                     ELSE StripWhitespace(text)[i]])

Atob(text) == SextetsToBinary(Unpad(StripWhitespace(text)))

\* decode: bytes[i] = binaryString.charCodeAt(i).
Decode(base64) ==
  LET binaryString == Atob(base64)
  IN [i \in 1..Len(binaryString) |-> binaryString[i]]

CallEncode ==
  /\ b64Pc = "encode"
  /\ b64Text' = Encode(b64Bytes)
  /\ b64Pc' = "decode"
  /\ UNCHANGED <<b64Bytes, b64Decoded>>
  /\ UNCHANGED <<stitchVars, mixVars, wavVars, decVars, parseVars, flowVars>>

CallDecode ==
  /\ b64Pc = "decode"
  /\ ~AtobFails(b64Text)
  /\ b64Decoded' = Decode(b64Text)
  /\ b64Pc' = "done"
  /\ UNCHANGED <<b64Bytes, b64Text>>
  /\ UNCHANGED <<stitchVars, mixVars, wavVars, decVars, parseVars, flowVars>>

DecodeThrows ==
  /\ b64Pc = "decode"
  /\ AtobFails(b64Text)
  /\ b64Pc' = "failed"
  /\ UNCHANGED <<b64Bytes, b64Text, b64Decoded>>
  /\ UNCHANGED <<stitchVars, mixVars, wavVars, decVars, parseVars, flowVars>>

(***************************************************************************)
(* parseScript.  A string is a sequence of one-character strings.  The     *)
(* regular expression dialogueRegex is, in order: "[", a timestamp (one or *)
(* more digits, an optional ".", any number of digits), "] DIALOGUE: ",    *)
(* "Speaker " and one or more digits, ": (", one or more characters other  *)
(* than ",", ", ", one or more characters other than ")", ") [", one or    *)
(* more characters other than "]", "] ", and the rest of the line up to a  *)
(* line terminator.  It is searched for anywhere in the line.  Each        *)
(* repetition is followed by a literal whose first character the           *)
(* repetition cannot consume, so the greedy match from a given start is    *)
(* the only candidate from that start.                                     *)
(***************************************************************************)
DigitChars == <<"0", "1", "2", "3", "4", "5", "6", "7", "8", "9">>

Digit == {DigitChars[i] : i \in 1..10}

\* The characters "." does not match.
LineTerminators == {"\n", "\r"}

\* The characters String.prototype.trim removes.
TrimChars == {" ", "\t", "\n", "\f", "\r"}

\* script.split('\n')
RECURSIVE SplitLines(_)
SplitLines(s) ==
  IF \A k \in 1..Len(s) : s[k] # "\n" THEN <<s>>
  ELSE LET k == CHOOSE j \in 1..Len(s) :
                  s[j] = "\n" /\ \A h \in 1..(j - 1) : s[h] # "\n"
       IN <<SubSeq(s, 1, k - 1)>> \o SplitLines(SubSeq(s, k + 1, Len(s)))

\* The literal lit stands in line at position pos.
LitAt(line, pos, lit) ==
  /\ pos + Len(lit) - 1 <= Len(line)
  /\ \A j \in 1..Len(lit) : line[pos + j - 1] = lit[j]

\* The position after the longest run, from pos on, of characters inside
\* (SpanIn) or outside (SpanNotIn) the set.
RECURSIVE SpanIn(_, _, _)
SpanIn(line, pos, set) ==
  IF pos <= Len(line) /\ line[pos] \in set THEN SpanIn(line, pos + 1, set)
  ELSE pos

RECURSIVE SpanNotIn(_, _, _)
SpanNotIn(line, pos, set) ==
  IF pos <= Len(line) /\ line[pos] \notin set THEN SpanNotIn(line, pos + 1, set)
  ELSE pos

\* dialogueRegex, piece by piece: a literal, an optional literal, or a run of
\* at least min characters inside ("in") or outside ("notin") a set.
DialogueRegex ==
  <<[kind |-> "lit", lit |-> <<"[">>, set |-> {}, min |-> 0],
    [kind |-> "in", lit |-> <<>>, set |-> Digit, min |-> 1],
    [kind |-> "opt", lit |-> <<".">>, set |-> {}, min |-> 0],
    [kind |-> "in", lit |-> <<>>, set |-> Digit, min |-> 0],
    [kind |-> "lit", lit |-> <<"]", " ", "D", "I", "A", "L", "O", "G", "U", "E", ":", " ">>, set |-> {}, min |-> 0],
    [kind |-> "lit", lit |-> <<"S", "p", "e", "a", "k", "e", "r", " ">>, set |-> {}, min |-> 0],
    [kind |-> "in", lit |-> <<>>, set |-> Digit, min |-> 1],
    [kind |-> "lit", lit |-> <<":", " ", "(">>, set |-> {}, min |-> 0],
    [kind |-> "notin", lit |-> <<>>, set |-> {","}, min |-> 1],
    [kind |-> "lit", lit |-> <<",", " ">>, set |-> {}, min |-> 0],
    [kind |-> "notin", lit |-> <<>>, set |-> {")"}, min |-> 1],
    [kind |-> "lit", lit |-> <<")", " ", "[">>, set |-> {}, min |-> 0],
    [kind |-> "notin", lit |-> <<>>, set |-> {"]"}, min |-> 1],
    [kind |-> "lit", lit |-> <<"]", " ">>, set |-> {}, min |-> 0],
    [kind |-> "notin", lit |-> <<>>, set |-> LineTerminators, min |-> 0]>>

\* Where piece can end when it starts at pos: one position, or none.
Advance(line, piece, pos) ==
  IF piece.kind = "lit"
  THEN IF LitAt(line, pos, piece.lit) THEN {pos + Len(piece.lit)} ELSE {}
  ELSE IF piece.kind = "opt"
  THEN IF LitAt(line, pos, piece.lit) THEN {pos + Len(piece.lit)} ELSE {pos}
  ELSE IF piece.kind = "in"
  THEN {e \in {SpanIn(line, pos, piece.set)} : e >= pos + piece.min}
  ELSE {e \in {SpanNotIn(line, pos, piece.set)} : e >= pos + piece.min}

\* The matches that go on from piece k with the positions ends so far: ends[1]
\* is where the match starts and ends[k + 1] is where piece k ends.
RECURSIVE Scan(_, _, _)
Scan(line, k, ends) ==
  IF k > Len(DialogueRegex) THEN {ends}
  ELSE UNION {Scan(line, k + 1, Append(ends, e)) :
                e \in Advance(line, DialogueRegex[k], ends[Len(ends)])}

MatchesAt(line, start) == Scan(line, 1, <<start>>) # {}

\* The leftmost start, from start on, that has a match; 0 if there is none.
RECURSIVE FirstMatch(_, _)
FirstMatch(line, start) ==
  IF start > Len(line) THEN 0
  ELSE IF MatchesAt(line, start) THEN start
  ELSE FirstMatch(line, start + 1)

\* line.match(dialogueRegex): whether it is not null, and its six groups.
Matches(line) == FirstMatch(line, 1) # 0

GroupsOf(line, ends) ==
  <<SubSeq(line, ends[2], ends[5] - 1), SubSeq(line, ends[6], ends[8] - 1),
    SubSeq(line, ends[9], ends[10] - 1), SubSeq(line, ends[11], ends[12] - 1),
    SubSeq(line, ends[13], ends[14] - 1), SubSeq(line, ends[15], ends[16] - 1)>>

DialogueMatch(line) ==
  GroupsOf(line, CHOOSE ends \in Scan(line, 1, <<FirstMatch(line, 1)>>) : TRUE)

\* String.prototype.trim
RECURSIVE TrimStart(_)
TrimStart(s) ==
  IF s # <<>> /\ Head(s) \in TrimChars THEN TrimStart(Tail(s)) ELSE s

RECURSIVE TrimEnd(_)
TrimEnd(s) ==
  IF s # <<>> /\ s[Len(s)] \in TrimChars THEN TrimEnd(SubSeq(s, 1, Len(s) - 1))
  ELSE s

TrimNone(s) == s

Trim(s) == TrimEnd(TrimStart(s))

\* parseFloat of a string of the form \d+\.?\d*, as the fraction num / den in
\* lowest decimal terms (den is the smallest power of ten that will do).
DigitValue(ch) == CHOOSE v \in 0..9 : DigitChars[v + 1] = ch

RECURSIVE DigitsValue(_)
DigitsValue(ds) ==
  IF ds = <<>> THEN 0
  ELSE DigitsValue(SubSeq(ds, 1, Len(ds) - 1)) * 10 + DigitValue(ds[Len(ds)])

RECURSIVE PowerOfTen(_)
PowerOfTen(n) == IF n = 0 THEN 1 ELSE 10 * PowerOfTen(n - 1)

RECURSIVE LowestTerms(_, _)
LowestTerms(n, d) ==
  IF d > 1 /\ n % 10 = 0 THEN LowestTerms(n \div 10, d \div 10)
  ELSE [num |-> n, den |-> d]

ParseFloat(str) ==
  LET whole == SubSeq(str, 1, SpanIn(str, 1, Digit) - 1)
      frac == SubSeq(str, Len(whole) + 2, Len(str))
  IN LowestTerms(DigitsValue(whole \o frac), PowerOfTen(Len(frac)))

DialogueLine(line) ==
  LET dialogueMatch == DialogueMatch(line)
  IN [time |-> ParseFloat(dialogueMatch[1]),
      speaker |-> dialogueMatch[2],
      age |-> Trim(dialogueMatch[3]),
      gender |-> Trim(dialogueMatch[4]),
      performanceCue |-> Trim(dialogueMatch[5]),
      text |-> Trim(dialogueMatch[6])]

RECURSIVE ParseLinesStopAtMismatch(_)
ParseLinesStopAtMismatch(lines) ==
  IF lines = <<>> \/ ~Matches(Head(lines)) THEN <<>>
  ELSE <<DialogueLine(Head(lines))>> \o ParseLinesStopAtMismatch(Tail(lines))

RECURSIVE ParseLines(_)
ParseLines(lines) ==
  IF lines = <<>> THEN <<>>
  ELSE (IF Matches(Head(lines)) THEN <<DialogueLine(Head(lines))>> ELSE <<>>)
       \o ParseLines(Tail(lines))

ParseScript(s) == ParseLines(SplitLines(s))

CallParseScript ==
  /\ parsePc = "start"
  /\ parsed' = ParseScript(script)
  /\ parsePc' = "done"
  /\ UNCHANGED script
  /\ UNCHANGED <<stitchVars, mixVars, wavVars, decVars, b64Vars, flowVars>>

(***************************************************************************)
(* Inputs.                                                                 *)
(***************************************************************************)
SampleValues == {-1, Int16Max}

SampleSeqs(n) == UNION {[1..k -> SampleValues] : k \in 0..n}

\* Byte buffers of 1..n bytes: whole samples, and the same with one odd byte
\* at the end.
ByteBuffers(n) ==
  {b \in {PcmBytes(s) \o t : s \in SampleSeqs(n \div 2), t \in {<<>>, <<7>>}} :
     Len(b) >= 1 /\ Len(b) <= n}

ClipSet ==
  [time : -1..MaxTime, finite : {TRUE}, audioData : ByteBuffers(MaxClipBytes)]
  \cup [time : {0}, finite : {FALSE}, audioData : ByteBuffers(MaxClipBytes)]

ClipLists == UNION {[1..n -> ClipSet] : n \in 0..MaxClips}

MixIdle ==
  /\ tracks = <<>>
  /\ mixed = <<>>
  /\ mixPc = "idle"

WavIdle ==
  /\ pcmData = <<>>
  /\ sampleRate = <<>>
  /\ numChannels = 0
  /\ bitsPerSample = 0
  /\ wavBlob = <<>>
  /\ wavPc = "idle"

StitchIdle ==
  /\ clips = <<>>
  /\ totalDuration = 0
  /\ stitchPc = "idle"
  /\ tempCtx = "none"
  /\ decodedBuffers = <<>>
  /\ renderedBuffer = <<>>
  /\ stitchBlob = <<>>
  /\ stitchErr = "none"

DecIdle ==
  /\ decData = <<>>
  /\ decChannels = 0
  /\ decBuffer = <<>>
  /\ decPc = "idle"

B64Idle ==
  /\ b64Bytes = <<>>
  /\ b64Text = <<>>
  /\ b64Decoded = <<>>
  /\ b64Pc = "idle"

ParseIdle ==
  /\ script = <<>>
  /\ parsed = <<>>
  /\ parsePc = "idle"

\* The application as it is constructed: no video, nothing generated.
FlowIdle ==
  /\ videoFile = FALSE
  /\ videoEl = [readyState |-> 0, duration |-> <<>>]
  /\ generatedAudioUrl = <<>>
  /\ isLoading = FALSE
  /\ loadingStep = ""
  /\ error = "none"
  /\ dialogueScript = <<>>
  /\ retryAfter = 0
  /\ retryAttempts = 0
  /\ flowPc = "idle"
  /\ apiScript = <<>>
  /\ parsedLines = <<>>
  /\ synthResponse = <<>>
  /\ settledClips = <<>>
  /\ settleOrder = <<>>
  /\ audioClips = <<>>
  /\ videoDuration = <<>>
  /\ err = "none"

LaterIdle == DecIdle /\ B64Idle /\ ParseIdle /\ FlowIdle

\* A duration of exactly one frame and one that ends inside the next frame.
Durations == (MaxDuration - 1)..MaxDuration

InitStitch ==
  /\ clips \in ClipLists
  /\ totalDuration \in Durations
  /\ stitchPc = "start"
  /\ tempCtx = "none"
  /\ decodedBuffers = <<>>
  /\ renderedBuffer = <<>>
  /\ stitchBlob = <<>>
  /\ stitchErr = "none"
  /\ MixIdle
  /\ WavIdle
  /\ LaterIdle

\* The durations are of a tick at least, so StitchContextThrows has no part
\* in it.
NextStitch ==
  \/ StitchDecodeRejected
  \/ StitchStartThrows
  \/ StitchRender
  \/ StitchReturn

SpecStitch == InitStitch /\ [][NextStitch]_vars

\* mixAudio over every list of up to MaxTracks byte buffers.
MixSampleValues == {Int16Min, -1, 1, Int16Max}

TrackSet ==
  {b \in {PcmBytes(s) \o t :
            s \in UNION {[1..k -> MixSampleValues] : k \in 0..(MaxTrackBytes \div 2)},
            t \in {<<>>, <<7>>}} :
     Len(b) <= MaxTrackBytes}

InitMix ==
  /\ tracks \in UNION {[1..n -> TrackSet] : n \in 0..MaxTracks}
  /\ mixed = <<>>
  /\ mixPc = "start"
  /\ StitchIdle
  /\ WavIdle
  /\ LaterIdle

NextMix == CallMixAudio

SpecMix == InitMix /\ [][NextMix]_vars

\* createWavBlob over payloads of up to MaxPcmBytes bytes and over formats
\* inside and outside what the header's 16-bit and 32-bit fields hold.
PcmByteValues == {0, 1, 255}

\* 8000, 24000, 44100 and 2^32 + 24000, in digits.
SampleRates ==
  {Digits(8000, 5), Digits(24000, 5), Digits(44100, 5), <<192, 93, 0, 0, 1>>}

ChannelCounts == {1, 2, 65535, 65536 + 1}

SampleBits == {8, 16, 65536 + 16}

InitWav ==
  /\ pcmData \in UNION {[1..n -> PcmByteValues] : n \in 0..MaxPcmBytes}
  /\ sampleRate \in SampleRates
  /\ numChannels \in ChannelCounts
  /\ bitsPerSample \in SampleBits
  /\ wavBlob = <<>>
  /\ wavPc = "start"
  /\ StitchIdle
  /\ MixIdle
  /\ LaterIdle

NextWav == CallCreateWavBlob

SpecWav == InitWav /\ [][NextWav]_vars

\* decodeAudioData over payloads of up to MaxDecodeSamples samples, whole
\* frames or not, with or without an odd byte at the end.
DecodeSampleValues == {Int16Min, 1, Int16Max}

DecodePayloads ==
  {PcmBytes(s) \o t :
     s \in UNION {[1..k -> DecodeSampleValues] : k \in 0..MaxDecodeSamples},
     t \in {<<>>, <<7>>}}

InitDecode ==
  /\ decData \in DecodePayloads
  /\ decChannels \in 1..MaxChannels
  /\ decBuffer = <<>>
  /\ decPc = "start"
  /\ StitchIdle
  /\ MixIdle
  /\ WavIdle
  /\ B64Idle
  /\ ParseIdle
  /\ FlowIdle

NextDecode ==
  \/ DecodeAudioDataThrows
  \/ CallDecodeAudioData

SpecDecode == InitDecode /\ [][NextDecode]_vars

\* encode then decode over every byte sequence of up to MaxB64Bytes bytes,
\* and decode alone over texts that encode does not produce.
B64ByteValues == {0, 1, 128, 251, 255}

B64TextChars == {"A", "/", "=", "!", " "}

InitB64 ==
  /\ \/ /\ b64Pc = "encode"
        /\ b64Bytes \in UNION {[1..n -> B64ByteValues] : n \in 0..MaxB64Bytes}
        /\ b64Text = <<>>
     \/ /\ b64Pc = "decode"
        /\ b64Bytes = <<>>
        /\ b64Text \in UNION {[1..n -> B64TextChars] : n \in 0..MaxB64Chars}
  /\ b64Decoded = <<>>
  /\ StitchIdle
  /\ MixIdle
  /\ WavIdle
  /\ DecIdle
  /\ ParseIdle
  /\ FlowIdle

NextB64 ==
  \/ CallEncode
  \/ CallDecode
  \/ DecodeThrows

SpecB64 == InitB64 /\ [][NextB64]_vars

\* parseScript over scripts of up to MaxScriptLines lines.  A dialogue line is
\* written out from its fields; the fields come plain, padded with blanks,
\* after other text on the line with an empty dialogue text, and before a
\* carriage return.
TimeTexts ==
  {[text |-> <<"2", ".", "3", "5", "0">>, value |-> [num |-> 235, den |-> 100]],
   [text |-> <<"5">>, value |-> [num |-> 5, den |-> 1]],
   [text |-> <<"0", ".">>, value |-> [num |-> 0, den |-> 1]]}

FieldStyles ==
  {[prefix |-> <<>>, speaker |-> <<"1">>, age |-> <<"C", "h", "i", "l", "d">>, gender |-> <<"M", "a", "l", "e">>,
     cue |-> <<"s", "h", "y">>, text |-> <<"H", "i", ".">>, eol |-> <<>>],
   [prefix |-> <<>>, speaker |-> <<"1", "2">>, age |-> <<" ", "A", " ">>, gender |-> <<"M", " ">>,
     cue |-> <<" ", "c">>, text |-> <<" ", "H", "i", " ">>, eol |-> <<>>],
   [prefix |-> <<">", " ">>, speaker |-> <<"1">>, age |-> <<"A">>, gender |-> <<"M">>,
     cue |-> <<"c">>, text |-> <<>>, eol |-> <<>>],
   [prefix |-> <<>>, speaker |-> <<"1">>, age |-> <<"A">>, gender |-> <<"M">>,
     cue |-> <<"c">>, text |-> <<"H", "i">>, eol |-> <<"\r">>]}

DialogueFields == [time : TimeTexts, style : FieldStyles]

LineText(d) ==
  d.style.prefix \o <<"[">> \o d.time.text \o <<"]", " ", "D", "I", "A", "L", "O", "G", "U", "E", ":", " ", "S", "p", "e", "a", "k", "e", "r", " ">>
    \o d.style.speaker \o <<":", " ", "(">> \o d.style.age \o <<",", " ">>
    \o d.style.gender \o <<")", " ", "[">> \o d.style.cue \o <<"]", " ">>
    \o d.style.text \o d.style.eol

DialogueLines == {LineText(d) : d \in DialogueFields}

\* A blank line, narration, and dialogue lines with one thing wrong: no digit
\* before the ".", no cue, no blank after the comma, the marker in lower
\* case, a timestamp that is not a number.
OtherLines ==
  {<<>>,
   <<"N", "a", "r", "r", "a", "t", "i", "o", "n", ".">>,
   <<"[", ".", "5", "]", " ", "D", "I", "A", "L", "O", "G", "U", "E", ":", " ", "S", "p", "e", "a", "k", "e", "r", " ", "1", ":", " ", "(", "A", ",", " ", "M", ")", " ", "[", "c", "]", " ", "H", "i">>,
   <<"[", "1", "]", " ", "D", "I", "A", "L", "O", "G", "U", "E", ":", " ", "S", "p", "e", "a", "k", "e", "r", " ", "1", ":", " ", "(", "A", ",", " ", "M", ")", " ", "H", "i">>,
   <<"[", "1", "]", " ", "D", "I", "A", "L", "O", "G", "U", "E", ":", " ", "S", "p", "e", "a", "k", "e", "r", " ", "1", ":", " ", "(", "A", ",", "M", ")", " ", "[", "c", "]", " ", "H", "i">>,
   <<"[", "1", "]", " ", "d", "i", "a", "l", "o", "g", "u", "e", ":", " ", "S", "p", "e", "a", "k", "e", "r", " ", "1", ":", " ", "(", "A", ",", " ", "M", ")", " ", "[", "c", "]", " ", "H", "i">>,
   <<"[", "x", "]", " ", "D", "I", "A", "L", "O", "G", "U", "E", ":", " ", "S", "p", "e", "a", "k", "e", "r", " ", "1", ":", " ", "(", "A", ",", " ", "M", ")", " ", "[", "c", "]", " ", "H", "i">>}

ScriptLines == DialogueLines \cup OtherLines

RECURSIVE JoinLines(_)
JoinLines(ls) ==
  IF ls = <<>> THEN <<>>
  ELSE IF Len(ls) = 1 THEN ls[1]
  ELSE ls[1] \o <<"\n">> \o JoinLines(Tail(ls))

Scripts ==
  {JoinLines(ls) : ls \in UNION {[1..n -> ScriptLines] : n \in 0..MaxScriptLines}}

InitParse ==
  /\ script \in Scripts
  /\ parsed = <<>>
  /\ parsePc = "start"
  /\ StitchIdle
  /\ MixIdle
  /\ WavIdle
  /\ DecIdle
  /\ B64Idle
  /\ FlowIdle

NextParse == CallParseScript

SpecParse == InitParse /\ [][NextParse]_vars

(***************************************************************************)
(* App: the dialogue generation flow (handleGenerateDialogue) and the      *)
(* handlers that can run around it.  In the flow one second of script or   *)
(* video time is one sample frame, so a timestamp of whole seconds is a    *)
(* whole frame and a video duration is counted in ticks like               *)
(* totalDuration.  The state hooks videoPreviewUrl, dialogueGuidance and   *)
(* isPlaying take no part in the flow's decisions and are left out.  A     *)
(* message is modelled by its fixed first sentence.                        *)
(***************************************************************************)
\* What the script request can answer: scripts of up to MaxFlowLines lines,
\* each different from the others, already trimmed as
\* generateDialogueScript returns them.
NarrationLine ==
  <<"N", "a", "r", "r", "a", "t", "i", "o", "n", ".">>

SpokenLineAt0 ==
  <<"[", "0", "]", " ", "D", "I", "A", "L", "O", "G", "U", "E", ":", " ", "S", "p", "e", "a", "k", "e", "r", " ", "1", ":", " ", "(", "A", ",", " ", "M", ")", " ", "[", "c", "]", " ", "H", "i">>

SpokenLineAt1 ==
  <<"[", "1", "]", " ", "D", "I", "A", "L", "O", "G", "U", "E", ":", " ", "S", "p", "e", "a", "k", "e", "r", " ", "2", ":", " ", "(", "A", ",", " ", "F", ")", " ", "[", "c", "]", " ", "Y", "o">>

FlowLines == {NarrationLine, SpokenLineAt0, SpokenLineAt1}

FlowScripts ==
  {JoinLines(ls) :
     ls \in {l \in UNION {[1..n -> FlowLines] : n \in 0..MaxFlowLines} :
               \A i, j \in 1..Len(l) : l[i] = l[j] => i = j}}

\* What the script request can fail with (fileToBase64 or the API), by the
\* part of the message the catch block looks at.
ScriptErrors ==
  {"429", "failed to fetch", "invalid argument", "safety", "503", "other",
   "not an Error"}

\* What a speech request can answer: nothing (an API error or no inlineData,
\* both returned as null), one sample of PCM in base64, a text that is not
\* base64, and one byte in base64.
NoAudioData == <<>>

OneSampleOfSpeech == Encode(PcmBytes(<<Int16Max>>))

SynthResponses == {NoAudioData, OneSampleOfSpeech, <<"!">>, Encode(<<7>>)}

\* What the duration of a video can be once its metadata is there: a number
\* of ticks, 0 included, or Infinity (a recording without a length in its
\* header).
VideoDurations == Durations \cup {0, Infinity}

\* A duration as a condition (NaN and 0 are false) and isFinite of it.
Truthy(duration) == duration # <<>> /\ duration[1] # 0

IsFinite(duration) == duration # <<>> /\ duration[1] # Infinity

\* Lines 117-126: getVideoDuration resolves before it returns.
ResolvesAtOnce(el) ==
  \/ Truthy(el.duration) /\ IsFinite(el.duration)
  \/ el.readyState >= 1 /\ Truthy(el.duration)

\* Line 130: the duration found by onLoadedMetadata is resolved with.
Usable(duration) == Truthy(duration) /\ IsFinite(duration)

\* Lines 208-229: the message shown for a caught error.
RateLimited(e) == e \in {"quota", "resource_exhausted", "429"}

ErrorMessage(e) ==
  IF e = "not an Error" THEN "An unknown error occurred."
  ELSE IF RateLimited(e) THEN "API rate limit exceeded."
  ELSE IF e = "failed to fetch" THEN "Network error."
  ELSE IF e = "invalid argument" THEN "The uploaded video file appears to be invalid."
  ELSE IF e = "safety" THEN "The content could not be processed."
  ELSE IF e \in {"500", "503", "server error"} THEN "A server error occurred."
  ELSE "An unexpected error occurred."

\* Mutant of Backoff: without Math.min(60, ...).
BackoffUncapped(n) == {2^n, 2^n + 1}

\* Math.ceil(Math.min(60, Math.pow(2, n) + Math.random())), Math.random()
\* being 0 or inside (0, 1).
Backoff(n) == {Min(60, 2^n), Min(60, 2^n + 1)}

\* Line 163 and line 188: the two early exits.
NoDialogueNever(lines) == FALSE

NoDialogueDetected(lines) == Len(lines) = 0

NoAudioNever(ac, lines) == FALSE

NoAudioGenerated(ac, lines) == Len(ac) = 0 /\ Len(lines) > 0

\* Lines 174-182: what the promise of one line settles to, given what
\* generateAudioForDialogueLine resolved with.
ThenCallback(line, audioBase64) ==
  IF audioBase64 # NoAudioData
  THEN IF AtobFails(audioBase64)
       THEN [state |-> "rejected", value |-> <<>>]
       ELSE [state |-> "fulfilled",
             value |-> <<[time |-> line.time, audioData |-> Decode(audioBase64)]>>]
  ELSE [state |-> "fulfilled", value |-> <<>>]

\* Promise.all keeps each result at the index of its promise.
SettleInCompletionOrder(promises, i, outcome) ==
  [promises EXCEPT
     ![CHOOSE k \in 1..Len(promises) :
         /\ promises[k].state = "pending"
         /\ \A h \in 1..(k - 1) : promises[h].state # "pending"] = outcome]

Settle(promises, i, outcome) == [promises EXCEPT ![i] = outcome]

\* Line 186: settledClips.filter(clip => clip !== null)
RECURSIVE NonNull(_)
NonNull(values) ==
  IF values = <<>> THEN <<>> ELSE Head(values) \o NonNull(Tail(values))

\* The clips as stitchAudioClips takes them: time * sampleRate in frames.
StitchArgs(ac) ==
  [i \in 1..Len(ac) |->
     [time |-> ac[i].time.num \div ac[i].time.den, finite |-> TRUE,
      audioData |-> ac[i].audioData]]

appVars == <<videoFile, videoEl, generatedAudioUrl, isLoading, loadingStep,
             error, dialogueScript, retryAfter, retryAttempts>>
flowLocals == <<flowPc, apiScript, parsedLines, synthResponse, settledClips,
                settleOrder, audioClips, videoDuration, err>>
otherCalls == <<mixVars, wavVars, decVars, b64Vars, parseVars>>

\* The catch block without the finally block.
CatchOnly(e) ==
  /\ err' = e
  /\ error' = ErrorMessage(e)
  /\ IF RateLimited(e)
     THEN /\ retryAttempts' = retryAttempts + 1
          /\ retryAfter' \in Backoff(retryAttempts + 1)
     ELSE UNCHANGED <<retryAfter, retryAttempts>>
  /\ UNCHANGED <<isLoading, loadingStep>>
  /\ flowPc' = "idle"

\* The catch block and the finally block, for the error e.
CatchFinally(e) ==
  /\ err' = e
  /\ error' = ErrorMessage(e)
  /\ IF RateLimited(e)
     THEN /\ retryAttempts' = retryAttempts + 1
          /\ retryAfter' \in Backoff(retryAttempts + 1)
     ELSE UNCHANGED <<retryAfter, retryAttempts>>
  /\ isLoading' = FALSE
  /\ loadingStep' = ""
  /\ flowPc' = "idle"

\* stitchAudioClips(audioClips, videoDuration) is called.
CallStitch(ac, d) ==
  /\ clips' = StitchArgs(ac)
  /\ totalDuration' = d
  /\ stitchPc' = "start"
  /\ tempCtx' = "none"
  /\ decodedBuffers' = <<>>
  /\ renderedBuffer' = <<>>
  /\ stitchBlob' = <<>>
  /\ stitchErr' = "none"
  /\ flowPc' = "awaitStitch"

\* Nothing is left of an earlier call of stitchAudioClips.
StitchForgotten ==
  /\ clips' = <<>>
  /\ totalDuration' = 0
  /\ stitchPc' = "idle"
  /\ tempCtx' = "none"
  /\ decodedBuffers' = <<>>
  /\ renderedBuffer' = <<>>
  /\ stitchBlob' = <<>>
  /\ stitchErr' = "none"

\* When the screen is cleared, what is left of a call of
\* handleGenerateDialogue that has ended with none of its requests out is
\* gone with it.
ForgetFinishedCall ==
  IF flowPc = "idle"
     /\ \A i \in 1..Len(settledClips) : settledClips[i].state # "pending"
  THEN /\ apiScript' = <<>>
       /\ parsedLines' = <<>>
       /\ synthResponse' = <<>>
       /\ settledClips' = <<>>
       /\ settleOrder' = <<>>
       /\ audioClips' = <<>>
       /\ videoDuration' = <<>>
       /\ err' = "none"
       /\ StitchForgotten
       /\ UNCHANGED flowPc
  ELSE UNCHANGED <<flowLocals, stitchVars>>

\* handleFileChange with a video file; the uploader is rendered while there is
\* no video.  The new video element has no metadata yet.
SelectVideo ==
  /\ ~videoFile
  /\ videoFile' = TRUE
  /\ videoEl' = [readyState |-> 0, duration |-> <<>>]
  /\ generatedAudioUrl' = <<>>
  /\ isLoading' = FALSE
  /\ error' = "none"
  /\ dialogueScript' = <<>>
  /\ retryAfter' = 0
  /\ retryAttempts' = 0
  /\ UNCHANGED <<loadingStep, flowLocals, stitchVars, otherCalls>>

\* handleFileChange with a file that is not a video.
SelectOtherFile ==
  /\ ~videoFile
  /\ error' = "Please upload a valid video file."
  /\ videoFile' = FALSE
  /\ UNCHANGED <<videoEl, generatedAudioUrl, isLoading, loadingStep,
                 dialogueScript, retryAfter, retryAttempts>>
  /\ UNCHANGED <<flowLocals, stitchVars, otherCalls>>

\* The video element gets its metadata while nobody waits for it.
VideoLoadsMetadata ==
  /\ videoFile
  /\ videoEl.readyState = 0
  /\ flowPc # "awaitMetadata"
  /\ \E d \in VideoDurations : videoEl' = [readyState |-> 1, duration |-> <<d>>]
  /\ UNCHANGED <<videoFile, generatedAudioUrl, isLoading, loadingStep, error,
                 dialogueScript, retryAfter, retryAttempts>>
  /\ UNCHANGED <<flowLocals, stitchVars, otherCalls>>

\* The Reset button is enabled whatever isLoading is.
ResetClickedWhileLoading ==
  /\ videoFile
  /\ videoFile' = FALSE
  /\ videoEl' = [readyState |-> 0, duration |-> <<>>]
  /\ generatedAudioUrl' = <<>>
  /\ isLoading' = FALSE
  /\ error' = "none"
  /\ dialogueScript' = <<>>
  /\ retryAfter' = 0
  /\ retryAttempts' = 0
  /\ ForgetFinishedCall
  /\ UNCHANGED <<loadingStep, otherCalls>>

\* The Reset button (resetState(false)); it is rendered with the video and
\* disabled while isLoading.
ResetClicked ==
  /\ videoFile
  /\ ~isLoading
  /\ videoFile' = FALSE
  /\ videoEl' = [readyState |-> 0, duration |-> <<>>]
  /\ generatedAudioUrl' = <<>>
  /\ isLoading' = FALSE
  /\ error' = "none"
  /\ dialogueScript' = <<>>
  /\ retryAfter' = 0
  /\ retryAttempts' = 0
  /\ ForgetFinishedCall
  /\ UNCHANGED <<loadingStep, otherCalls>>

\* The effect of lines 51-56: one second of the retry countdown.
RetryTimerFires ==
  /\ retryAfter > 0
  /\ retryAfter' = retryAfter - 1
  /\ UNCHANGED <<videoFile, videoEl, generatedAudioUrl, isLoading, loadingStep,
                 error, dialogueScript, retryAttempts>>
  /\ UNCHANGED <<flowLocals, stitchVars, otherCalls>>

\* The Generate button is enabled whatever isLoading is.
GenerateClickedWhileLoading ==
  /\ videoFile
  /\ retryAfter = 0
  /\ isLoading' = TRUE
  /\ error' = "none"
  /\ generatedAudioUrl' = <<>>
  /\ dialogueScript' = <<>>
  /\ loadingStep' = "Analyzing Lip Movements"
  /\ flowPc' = "awaitScript"
  /\ apiScript' = <<>>
  /\ parsedLines' = <<>>
  /\ synthResponse' = <<>>
  /\ settledClips' = <<>>
  /\ settleOrder' = <<>>
  /\ audioClips' = <<>>
  /\ videoDuration' = <<>>
  /\ err' = "none"
  /\ StitchForgotten
  /\ UNCHANGED <<videoFile, videoEl, retryAfter, retryAttempts>>
  /\ UNCHANGED otherCalls

\* The Generate button, enabled unless isLoading, no video or retryAfter > 0:
\* lines 146-157, up to the first await.
GenerateClicked ==
  /\ videoFile
  /\ ~isLoading
  /\ retryAfter = 0
  /\ isLoading' = TRUE
  /\ error' = "none"
  /\ generatedAudioUrl' = <<>>
  /\ dialogueScript' = <<>>
  /\ loadingStep' = "Analyzing Lip Movements"
  /\ flowPc' = "awaitScript"
  /\ apiScript' = <<>>
  /\ parsedLines' = <<>>
  /\ synthResponse' = <<>>
  /\ settledClips' = <<>>
  /\ settleOrder' = <<>>
  /\ audioClips' = <<>>
  /\ videoDuration' = <<>>
  /\ err' = "none"
  /\ StitchForgotten
  /\ UNCHANGED <<videoFile, videoEl, retryAfter, retryAttempts>>
  /\ UNCHANGED otherCalls

\* fileToBase64 or generateDialogueScript rejects with one of errors: lines
\* 205-234.  No more than cap rate limit errors follow each other.
ScriptRejectedWith(errors, cap) ==
  /\ flowPc = "awaitScript"
  /\ \E e \in errors :
       /\ RateLimited(e) => retryAttempts < cap
       /\ CatchFinally(e)
  /\ UNCHANGED <<videoFile, videoEl, generatedAudioUrl, dialogueScript>>
  /\ UNCHANGED <<apiScript, parsedLines, synthResponse, settledClips, settleOrder,
                 audioClips, videoDuration>>
  /\ UNCHANGED <<stitchVars, otherCalls>>

ScriptRejected == ScriptRejectedWith(ScriptErrors, MaxRetryAttempts)

\* generateDialogueScript resolves with one of scripts: lines 159-173.  With
\* no dialogue line the flow reports it and returns; otherwise one speech
\* request per line goes out, and what each will be answered with, one of
\* responses, is fixed from here on.
ScriptResolvedWith(scripts, responses) ==
  /\ flowPc = "awaitScript"
  /\ \E s \in scripts :
       /\ apiScript' = <<s>>
       /\ dialogueScript' = s
       /\ parsedLines' = ParseScript(s)
       /\ IF NoDialogueDetected(ParseScript(s))
          THEN /\ error' = IF Trim(s) # <<>>
                           THEN "AI could not generate a valid script."
                           ELSE "AI did not detect any dialogue in the video."
               /\ isLoading' = FALSE
               /\ loadingStep' = ""
               /\ flowPc' = "idle"
               /\ UNCHANGED <<synthResponse, settledClips>>
          ELSE /\ loadingStep' = "Generating Dialogue Audio"
               /\ synthResponse' \in [1..Len(ParseScript(s)) -> responses]
               /\ settledClips' =
                    [i \in 1..Len(ParseScript(s)) |->
                       [state |-> "pending", value |-> <<>>]]
               /\ flowPc' = "awaitClips"
               /\ UNCHANGED <<error, isLoading>>
  /\ UNCHANGED <<videoFile, videoEl, generatedAudioUrl, retryAfter, retryAttempts>>
  /\ UNCHANGED <<settleOrder, audioClips, videoDuration, err>>
  /\ UNCHANGED <<stitchVars, otherCalls>>

ScriptResolved == ScriptResolvedWith(FlowScripts, SynthResponses)

\* One speech request comes back and its then-callback runs.  A rejection
\* resumes the waiting flow in the same turn of the event loop, before any
\* other request comes back.
SynthesisSettles ==
  /\ ~(flowPc = "awaitClips"
        /\ \E i \in 1..Len(settledClips) : settledClips[i].state = "rejected")
  /\ \E i \in 1..Len(settledClips) :
       /\ settledClips[i].state = "pending"
       /\ settledClips' =
            Settle(settledClips, i, ThenCallback(parsedLines[i], synthResponse[i]))
       /\ settleOrder' = Append(settleOrder, i)
  /\ UNCHANGED appVars
  /\ UNCHANGED <<flowPc, apiScript, parsedLines, synthResponse, audioClips, videoDuration, err>>
  /\ UNCHANGED <<stitchVars, otherCalls>>

\* Promise.all rejects as soon as one of its promises has: lines 205-234.
ClipsRejected ==
  /\ flowPc = "awaitClips"
  /\ \E i \in 1..Len(settledClips) : settledClips[i].state = "rejected"
  /\ CatchFinally("InvalidCharacterError")
  /\ UNCHANGED <<videoFile, videoEl, generatedAudioUrl, dialogueScript>>
  /\ UNCHANGED <<apiScript, parsedLines, synthResponse, settledClips, settleOrder,
                 audioClips, videoDuration>>
  /\ UNCHANGED <<stitchVars, otherCalls>>

\* Promise.all resolves: lines 186-199.  getVideoDuration resolves at once
\* when the element has its duration, and stitchAudioClips is called;
\* otherwise it waits for loadedmetadata.
ClipsResolved ==
  /\ flowPc = "awaitClips"
  /\ \A i \in 1..Len(settledClips) : settledClips[i].state = "fulfilled"
  /\ audioClips' = NonNull([i \in 1..Len(settledClips) |-> settledClips[i].value])
  /\ IF NoAudioGenerated(audioClips', parsedLines)
     THEN /\ error' = "Failed to generate audio for any script lines."
          /\ isLoading' = FALSE
          /\ loadingStep' = ""
          /\ flowPc' = "idle"
          /\ UNCHANGED videoDuration
          /\ UNCHANGED stitchVars
     ELSE /\ loadingStep' = "Synchronizing Dialogue"
          /\ IF ResolvesAtOnce(videoEl)
             THEN /\ videoDuration' = videoEl.duration
                  /\ CallStitch(audioClips', videoEl.duration[1])
             ELSE /\ videoDuration' = <<>>
                  /\ flowPc' = "awaitMetadata"
                  /\ UNCHANGED stitchVars
          /\ UNCHANGED <<error, isLoading>>
  /\ UNCHANGED <<videoFile, videoEl, generatedAudioUrl, dialogueScript,
                 retryAfter, retryAttempts>>
  /\ UNCHANGED <<apiScript, parsedLines, synthResponse, settledClips, settleOrder, err>>
  /\ UNCHANGED otherCalls

\* loadedmetadata while getVideoDuration waits: lines 128-135, then line 199
\* or the catch block.
OnLoadedMetadata ==
  /\ flowPc = "awaitMetadata"
  /\ videoEl.readyState = 0
  /\ \E d \in VideoDurations :
       /\ videoEl' = [readyState |-> 1, duration |-> <<d>>]
       /\ IF Usable(<<d>>)
          THEN /\ videoDuration' = <<d>>
               /\ CallStitch(audioClips, d)
               /\ UNCHANGED <<isLoading, loadingStep, error, retryAfter,
                              retryAttempts, err>>
          ELSE /\ CatchFinally("Could not determine video duration after metadata loaded.")
               /\ UNCHANGED videoDuration
               /\ UNCHANGED stitchVars
  /\ UNCHANGED <<videoFile, generatedAudioUrl, dialogueScript>>
  /\ UNCHANGED <<apiScript, parsedLines, synthResponse, settledClips, settleOrder,
                 audioClips>>
  /\ UNCHANGED otherCalls

\* The 5 s timeout of lines 139-141 while getVideoDuration waits.
MetadataTimeout ==
  /\ flowPc = "awaitMetadata"
  /\ CatchFinally("Timeout waiting for video metadata.")
  /\ UNCHANGED <<videoFile, videoEl, generatedAudioUrl, dialogueScript>>
  /\ UNCHANGED <<apiScript, parsedLines, synthResponse, settledClips, settleOrder,
                 audioClips, videoDuration>>
  /\ UNCHANGED <<stitchVars, otherCalls>>

\* stitchAudioClips resolves: lines 200-203, then the finally block.
StitchResolved ==
  /\ flowPc = "awaitStitch"
  /\ stitchPc = "done"
  /\ generatedAudioUrl' = <<stitchBlob>>
  /\ retryAttempts' = 0
  /\ isLoading' = FALSE
  /\ loadingStep' = ""
  /\ flowPc' = "idle"
  /\ UNCHANGED <<videoFile, videoEl, error, dialogueScript, retryAfter>>
  /\ UNCHANGED <<apiScript, parsedLines, synthResponse, settledClips, settleOrder,
                 audioClips, videoDuration, err>>
  /\ UNCHANGED <<stitchVars, otherCalls>>

\* stitchAudioClips rejects: lines 205-234.
StitchRejected ==
  /\ flowPc = "awaitStitch"
  /\ stitchPc = "failed"
  /\ CatchFinally(stitchErr)
  /\ UNCHANGED <<videoFile, videoEl, generatedAudioUrl, dialogueScript>>
  /\ UNCHANGED <<apiScript, parsedLines, synthResponse, settledClips, settleOrder,
                 audioClips, videoDuration>>
  /\ UNCHANGED <<stitchVars, otherCalls>>

InitFlow ==
  /\ FlowIdle
  /\ StitchIdle
  /\ MixIdle
  /\ WavIdle
  /\ DecIdle
  /\ B64Idle
  /\ ParseIdle

\* In the flow a clip's time is a parsed timestamp, finite and not negative,
\* so StitchStartThrows has no part in it.
NextFlow ==
  \/ SelectVideo
  \/ SelectOtherFile
  \/ VideoLoadsMetadata
  \/ ResetClicked
  \/ RetryTimerFires
  \/ GenerateClicked
  \/ ScriptRejected
  \/ ScriptResolved
  \/ SynthesisSettles
  \/ ClipsRejected
  \/ ClipsResolved
  \/ OnLoadedMetadata
  \/ MetadataTimeout
  \/ StitchContextThrows
  \/ StitchDecodeRejected
  \/ StitchRender
  \/ StitchReturn
  \/ StitchResolved
  \/ StitchRejected

SpecFlow == InitFlow /\ [][NextFlow]_vars

\* The flow with a script of one line whose speech request is answered with
\* speech, and with script requests that fail, up to MaxBackoffs times in a row
\* by the rate limit.
ScriptRejectedOften == ScriptRejectedWith({"429", "503"}, MaxBackoffs)

ScriptResolvedToOneLine == ScriptResolvedWith({SpokenLineAt0}, {OneSampleOfSpeech})

NextRetry ==
  \/ SelectVideo
  \/ SelectOtherFile
  \/ VideoLoadsMetadata
  \/ ResetClicked
  \/ RetryTimerFires
  \/ GenerateClicked
  \/ ScriptRejectedOften
  \/ ScriptResolvedToOneLine
  \/ SynthesisSettles
  \/ ClipsResolved
  \/ OnLoadedMetadata
  \/ MetadataTimeout
  \/ StitchContextThrows
  \/ StitchRender
  \/ StitchReturn
  \/ StitchResolved
  \/ StitchRejected

\* The countdown's timer of lines 51-56 fires a second after it was set.
SpecRetry == InitFlow /\ [][NextRetry]_vars /\ WF_vars(RetryTimerFires)

\* What a suspended flow goes on with: a request that comes back, the
\* loadedmetadata event or the 5 s timer, and the steps of stitchAudioClips.
FlowContinues ==
  \/ ScriptRejected
  \/ ScriptResolved
  \/ SynthesisSettles
  \/ ClipsRejected
  \/ ClipsResolved
  \/ OnLoadedMetadata
  \/ MetadataTimeout
  \/ StitchContextThrows
  \/ StitchDecodeRejected
  \/ StitchRender
  \/ StitchReturn
  \/ StitchResolved
  \/ StitchRejected

\* The flow where every request is answered, every timer fires and every
\* rendering finishes.
SpecFlowFair == SpecFlow /\ WF_vars(FlowContinues)

(***************************************************************************)
(* Properties.                                                             *)
(***************************************************************************)
\* The signed 16-bit little-endian samples of a PCM byte buffer.
SamplesOf(bytes) ==
  [i \in 1..(Len(bytes) \div 2) |->
     LET u == bytes[2 * i - 1] + 256 * bytes[2 * i]
     IN IF u > Int16Max THEN u - 65536 ELSE u]

Clamp16(x) == IF x < Int16Min THEN Int16Min ELSE IF x > Int16Max THEN Int16Max ELSE x

\* A clip the stitcher has to accept: whole samples, a finite time >= 0.
ValidClip(c) ==
  /\ c.finite
  /\ c.time >= 0
  /\ Len(c.audioData) >= 2
  /\ Len(c.audioData) % 2 = 0

\* C1: two clips of equal length placed at the same time: output sample
\* time + i is clamp(a[i] + b[i], -32768, 32767).
C1_OverlapIsClampedSum ==
  (/\ stitchPc = "done"
   /\ Len(clips) = 2
   /\ ValidClip(clips[1])
   /\ ValidClip(clips[2])
   /\ clips[1].time = clips[2].time
   /\ Len(clips[1].audioData) = Len(clips[2].audioData))
  => LET a == SamplesOf(clips[1].audioData)
         b == SamplesOf(clips[2].audioData)
     IN \A i \in 1..Len(a) :
          clips[1].time + i <= Len(stitchBlob)
          => stitchBlob[clips[1].time + i] = Clamp16(a[i] + b[i])

\* C2: a single clip at time t >= 0: the output holds the clip's own sample
\* values, unchanged, from index t on, cut off at the output's last index.
C2_SingleClipUnchanged ==
  (/\ stitchPc = "done"
   /\ Len(clips) = 1
   /\ ValidClip(clips[1]))
  => LET a == SamplesOf(clips[1].audioData)
     IN \A i \in 1..Len(a) :
          clips[1].time + i <= Len(stitchBlob)
          => stitchBlob[clips[1].time + i] = a[i]

\* The smallest whole number of frames that holds d ticks.
CeilFrames(d) ==
  CHOOSE n \in 0..d : n * TicksPerFrame >= d /\ (n - 1) * TicksPerFrame < d

\* Output frame f (0-based) lies inside some clip's samples.
Covered(f) ==
  \E i \in 1..Len(clips) :
    /\ clips[i].time <= f
    /\ f < clips[i].time + Len(SamplesOf(clips[i].audioData))

\* C3: for every list of valid clips, also the empty list and clips at or
\* beyond the end, the call returns; every returned output has exactly
\* ceil(totalDuration * sampleRate) samples and is 0 wherever no clip lies.
C3_LengthAndSilence ==
  /\ (\A i \in 1..Len(clips) : ValidClip(clips[i])) => stitchPc # "failed"
  /\ stitchPc = "done"
     => /\ Len(stitchBlob) = CeilFrames(totalDuration)
        /\ \A f \in 1..Len(stitchBlob) : ~Covered(f - 1) => stitchBlob[f] = 0

\* A returned output whose only clips start at or after its end: silence.
C3_Witness ==
  /\ stitchPc = "done"
  /\ Len(clips) = MaxClips
  /\ \A i \in 1..Len(clips) : clips[i].time >= Len(stitchBlob)
  /\ \A f \in 1..Len(stitchBlob) : ~Covered(f - 1) /\ stitchBlob[f] = 0

\* What stitchAudioClips returns for the clip list cl.
StitchedBlob(cl, d) ==
  AudioBufferToWavBlob(Render(Sources(DecodeAll(cl), cl), OfflineLength(d)))

\* C4: the returned output is the same for every permutation of the clip list.
C4_OrderIndependent ==
  stitchPc = "done"
  => \A p \in Permutations(1..Len(clips)) :
       stitchBlob = StitchedBlob([i \in 1..Len(clips) |-> clips[p[i]]], totalDuration)

\* Two different clips that overlap in the output, the later one given first.
C4_Witness ==
  /\ stitchPc = "done"
  /\ Len(clips) = 2
  /\ clips[1] # clips[2]
  /\ clips[1].time > clips[2].time
  /\ clips[1].time < Len(stitchBlob)
  /\ clips[1].time < clips[2].time + Len(SamplesOf(clips[2].audioData))

InvalidTime(c) == ~c.finite \/ c.time < 0

\* C5: a clip list with a negative or non-finite time is never rendered: the
\* call ends by throwing, with no output.
C5_InvalidTimeFails ==
  (\E i \in 1..Len(clips) : InvalidTime(clips[i]))
  => /\ stitchPc \in {"start", "failed"}
     /\ renderedBuffer = <<>>
     /\ stitchBlob = <<>>
     /\ stitchPc = "failed" => stitchErr \in {"RangeError", "TypeError", "NotSupportedError"}

\* A call that failed on a negative time after an earlier clip was accepted.
C5_Witness ==
  /\ stitchPc = "failed"
  /\ stitchErr = "RangeError"
  /\ Len(clips) = 2
  /\ ValidClip(clips[1])
  /\ clips[2].time < 0

\* The mixed sample sum at index i (0-based) over the tracks in T.
RECURSIVE SumTracksAt(_, _)
SumTracksAt(T, i) ==
  IF T = {} THEN 0
  ELSE LET t == CHOOSE x \in T : TRUE
           samples == SamplesOf(tracks[t])
       IN (IF Len(samples) > i THEN samples[i + 1] ELSE 0)
          + SumTracksAt(T \ {t}, i)

LongestTrack ==
  IF tracks = <<>> THEN 0
  ELSE CHOOSE n \in 0..MaxTrackBytes :
         /\ \E t \in 1..Len(tracks) : Len(SamplesOf(tracks[t])) = n
         /\ \A t \in 1..Len(tracks) : Len(SamplesOf(tracks[t])) <= n

\* C6: mixAudio returns max(track lengths) samples and sample i is the sum of
\* the tracks longer than i, clamped to [-32768, 32767].
C6_MixIsClampedSum ==
  mixPc = "done"
  => /\ Len(SamplesOf(mixed)) = LongestTrack
     /\ \A i \in 1..Len(SamplesOf(mixed)) :
          SamplesOf(mixed)[i] = Clamp16(SumTracksAt(1..Len(tracks), i - 1))

\* Two tracks of different lengths whose first samples saturate, the longer
\* track alone past the shorter one's end.
C6_Witness ==
  /\ mixPc = "done"
  /\ Len(tracks) = 2
  /\ Len(SamplesOf(tracks[1])) = 2
  /\ Len(SamplesOf(tracks[2])) = 1
  /\ SumTracksAt({1, 2}, 0) > Int16Max
  /\ SamplesOf(mixed)[1] = Int16Max
  /\ SamplesOf(mixed)[2] = SamplesOf(tracks[1])[2]

\* C7: a clip whose byte length is odd is rejected: the stitcher never goes on
\* to render it.
C7_OddLengthRejected ==
  (\E i \in 1..Len(clips) : Len(clips[i].audioData) % 2 = 1)
  => stitchPc \in {"start", "failed"}

\* A header field of n bytes at 0-based offset off, as digits.
Field(blob, off, n) == SubSeq(blob, off + 1, off + n)

\* The digits ds and the integer x are the same number.
IsNumber(ds, x) == ds \o <<0, 0, 0, 0>> = Digits(x, Len(ds) + 4)

\* The sample rate as an integer, when it is below 2^31.
RateValue == sampleRate[1] + 256 * sampleRate[2] + 65536 * sampleRate[3]
             + 16777216 * sampleRate[4]

\* Every value the header holds fits the field it is written to.
FitsWavFields ==
  /\ sampleRate[5] = 0
  /\ sampleRate[4] < 128
  /\ numChannels < 65536
  /\ bitsPerSample < 65536
  /\ (numChannels * bitsPerSample) % 8 = 0
  /\ (numChannels * bitsPerSample) \div 8 < 65536
  /\ RateValue <= 2147483647 \div ((numChannels * bitsPerSample) \div 8)

\* C8: the blob is 44 + pcm.length bytes: the canonical RIFF/WAVE header,
\* integers little-endian, then the payload unchanged.
C8_WavLayout ==
  (wavPc = "done" /\ FitsWavFields)
  => LET blockAlign == (numChannels * bitsPerSample) \div 8
     IN /\ Len(wavBlob) = 44 + Len(pcmData)
        /\ Field(wavBlob, 0, 4) = <<82, 73, 70, 70>>
        /\ IsNumber(Field(wavBlob, 4, 4), 36 + Len(pcmData))
        /\ Field(wavBlob, 8, 4) = <<87, 65, 86, 69>>
        /\ Field(wavBlob, 12, 4) = <<102, 109, 116, 32>>
        /\ IsNumber(Field(wavBlob, 16, 4), 16)
        /\ IsNumber(Field(wavBlob, 20, 2), 1)
        /\ IsNumber(Field(wavBlob, 22, 2), numChannels)
        /\ IsNumber(Field(wavBlob, 24, 4), RateValue)
        /\ IsNumber(Field(wavBlob, 28, 4), RateValue * blockAlign)
        /\ IsNumber(Field(wavBlob, 32, 2), blockAlign)
        /\ IsNumber(Field(wavBlob, 34, 2), bitsPerSample)
        /\ Field(wavBlob, 36, 4) = <<100, 97, 116, 97>>
        /\ IsNumber(Field(wavBlob, 40, 4), Len(pcmData))
        /\ SubSeq(wavBlob, 45, Len(wavBlob)) = pcmData

\* A stereo 16-bit blob with a payload.
C8_Witness ==
  /\ wavPc = "done"
  /\ FitsWavFields
  /\ numChannels = 2
  /\ bitsPerSample = 16
  /\ Len(pcmData) = MaxPcmBytes
  /\ Len(wavBlob) = 44 + MaxPcmBytes

\* Reading the format fields and the data bytes back gives what was passed in.
ReadsBack ==
  /\ Field(wavBlob, 24, 4) \o <<0>> = sampleRate
  /\ IsNumber(Field(wavBlob, 22, 2), numChannels)
  /\ IsNumber(Field(wavBlob, 34, 2), bitsPerSample)
  /\ SubSeq(wavBlob, 45, Len(wavBlob)) = pcmData

\* C9 as stated: the round trip holds for any sample rate, channel count and
\* bits-per-sample and any non-empty payload.
C9_RoundTripAny == (wavPc = "done" /\ pcmData # <<>>) => ReadsBack

\* C9, amended: for a non-empty payload the round trip holds when the sample
\* rate is below 2^32 and the channel count and bits-per-sample are below 2^16.
C9_RoundTripInRange ==
  (/\ wavPc = "done"
   /\ pcmData # <<>>
   /\ sampleRate[5] = 0
   /\ numChannels < 65536
   /\ bitsPerSample < 65536)
  => ReadsBack

\* A blob whose channel count is the largest the field holds.
C9_Witness ==
  /\ wavPc = "done"
  /\ sampleRate[5] = 0
  /\ numChannels = 65535
  /\ bitsPerSample < 65536
  /\ pcmData # <<>>
  /\ ReadsBack

\* The conversion C10 describes: clamp to [-1, 1], times 32768 when negative
\* and 32767 otherwise, truncated.
ScaledBySign(x) ==
  LET s == IF x < -FloatOne THEN -FloatOne ELSE IF x > FloatOne THEN FloatOne ELSE x
      v == IF s < 0 THEN s * 32768 ELSE s * 32767
  IN IF v >= 0 THEN v \div FloatOne ELSE -((-v) \div FloatOne)

\* C10: every written sample is the rendered float clamped, scaled by 32768
\* when negative and by 32767 when positive, truncated, and lies in the
\* 16-bit range.
C10_NegativeUses32768 ==
  stitchPc = "done"
  => \A f \in 1..Len(stitchBlob) :
       /\ stitchBlob[f] = ScaledBySign(renderedBuffer[f])
       /\ stitchBlob[f] >= Int16Min
       /\ stitchBlob[f] <= Int16Max

\* The (channel, frame) positions of the decoded buffer that hold flat sample k.
PositionsOf(k) ==
  {p \in (1..decChannels) \X (1..Len(decBuffer[1])) :
     (p[2] - 1) * decChannels + p[1] = k}

\* C11 as stated: after decodeAudioData returns, for every channel c and every
\* frame i with i < sampleCount / numChannels (0-based, the quotient taken as
\* the real number it is), channel c's sample i is the flat 16-bit sample at
\* i * numChannels + c divided by 32768, every value lies in [-1, 1), and every
\* flat sample is assigned to exactly one channel position.
C11_DeinterleavesEverySample ==
  decPc = "done" =>
    LET flat == SamplesOf(decData)
    IN /\ \A c \in 1..decChannels :
            \A i \in 1..Len(flat) :
              (i - 1) * decChannels < Len(flat) =>
                /\ i <= Len(decBuffer[c])
                /\ (i - 1) * decChannels + c <= Len(flat)
                /\ decBuffer[c][i] * 32768 = flat[(i - 1) * decChannels + c] * FloatOne
                /\ -FloatOne <= decBuffer[c][i]
                /\ decBuffer[c][i] < FloatOne
       /\ \A k \in 1..Len(flat) : Cardinality(PositionsOf(k)) = 1

\* C11 amended: the same for the whole frames of the payload, that is for
\* every frame i < floor(sampleCount / numChannels); the buffer has exactly
\* that many frames per channel, every flat sample of a whole frame is assigned
\* to exactly one channel position, and the samples of a trailing partial
\* frame are assigned to none.
C11_DeinterleavesWholeFrames ==
  decPc = "done" =>
    LET flat == SamplesOf(decData)
        frames == Len(flat) \div decChannels
    IN /\ Len(decBuffer) = decChannels
       /\ \A c \in 1..decChannels :
            /\ Len(decBuffer[c]) = frames
            /\ \A i \in 1..frames :
                 /\ decBuffer[c][i] * 32768 = flat[(i - 1) * decChannels + c] * FloatOne
                 /\ -FloatOne <= decBuffer[c][i]
                 /\ decBuffer[c][i] < FloatOne
       /\ \A k \in 1..Len(flat) :
            Cardinality(PositionsOf(k)) = IF k <= frames * decChannels THEN 1 ELSE 0

\* Two whole frames of two channels, the two channels of a frame differing.
C11_Witness ==
  /\ decPc = "done"
  /\ decChannels = 2
  /\ Len(SamplesOf(decData)) = 4
  /\ decBuffer = <<<<Int16Min, 1>>, <<Int16Max, 1>>>>

\* C20: a call of mixAudio leaves its input tracks as they were, and called
\* with a single track t it returns t, byte for byte.
C20_MixIdentity ==
  [][(mixPc = "start" /\ mixPc' = "done") =>
       /\ tracks' = tracks
       /\ Len(tracks) = 1 => mixed' = tracks[1]]_vars

\* mixAudio has returned a single track of three bytes, odd byte included.
C20_Witness ==
  /\ mixPc = "done"
  /\ Len(tracks) = 1
  /\ Len(tracks[1]) = 3
  /\ mixed = tracks[1]

\* C19: decode(encode(b)) = b for every byte sequence b, the empty one
\* included: once decode has ended on the text that encode made of b, it has
\* returned, and what it returned is b.
C19_Base64RoundTrip ==
  (b64Pc \in {"done", "failed"} /\ b64Text = Encode(b64Bytes)) =>
    (b64Pc = "done" /\ b64Decoded = b64Bytes)

\* A round trip of MaxB64Bytes bytes whose text needs padding and holds
\* "+" or "/".
C19_Witness ==
  /\ b64Pc = "done"
  /\ Len(b64Bytes) = MaxB64Bytes
  /\ b64Text = Encode(b64Bytes)
  /\ b64Text[Len(b64Text)] = "="
  /\ \E i \in 1..Len(b64Text) : b64Text[i] \in {"+", "/"}
  /\ b64Decoded = b64Bytes

\* ts is s without the blanks at its two ends.
Blank == {" ", "\t", "\r", "\n"}

IsTrimOf(ts, s) ==
  \E i \in 1..(Len(s) + 1) :
    \E j \in (i - 1)..Len(s) :
      /\ ts = SubSeq(s, i, j)
      /\ \A h \in 1..Len(s) : (h < i \/ h > j) => s[h] \in Blank
      /\ ts # <<>> => (ts[1] \notin Blank /\ ts[Len(ts)] \notin Blank)

\* The number of dialogue lines among the first k lines.
DialogueLinesUpTo(lines, k) ==
  Cardinality({h \in 1..k : lines[h] \in DialogueLines})

\* C17: once parseScript has returned, every line of the script that is a
\* dialogue line written from some fields has its own record, at the place
\* its line has among the dialogue lines; the record's time is the value of
\* the timestamp, its speaker is the speaker label and its age, gender,
\* performanceCue and text are the fields without their surrounding blanks.
C17_MatchingLineYieldsRecord ==
  parsePc = "done" =>
    LET lines == SplitLines(script)
    IN \A k \in 1..Len(lines) :
         \A d \in DialogueFields :
           lines[k] = LineText(d) =>
             LET n == DialogueLinesUpTo(lines, k)
             IN /\ n <= Len(parsed)
                /\ parsed[n].time = d.time.value
                /\ parsed[n].speaker = <<"S", "p", "e", "a", "k", "e", "r", " ">> \o d.style.speaker
                /\ IsTrimOf(parsed[n].age, d.style.age)
                /\ IsTrimOf(parsed[n].gender, d.style.gender)
                /\ IsTrimOf(parsed[n].performanceCue, d.style.cue)
                /\ IsTrimOf(parsed[n].text, d.style.text)

\* Two dialogue lines, the first with blanks around its fields, the second
\* after other text on its line.
C17_Witness ==
  /\ parsePc = "done"
  /\ Len(parsed) = 2
  /\ parsed[1].age = <<"A">>
  /\ parsed[1].text = <<"H", "i">>
  /\ parsed[1].speaker = <<"S", "p", "e", "a", "k", "e", "r", " ", "1", "2">>
  /\ parsed[1].time = [num |-> 235, den |-> 100]
  /\ parsed[2].text = <<>>
  /\ \E d \in DialogueFields :
       d.style.prefix # <<>> /\ SplitLines(script)[2] = LineText(d)

\* C18: parseScript returns for every script, with as many records as the
\* script has dialogue lines; the other lines add nothing, and a script
\* without a dialogue line gives the empty list.
C18_OtherLinesSkipped ==
  /\ parsePc \in {"start", "done"}
  /\ parsePc = "done" =>
       LET lines == SplitLines(script)
       IN Len(parsed) = DialogueLinesUpTo(lines, Len(lines))

\* A script of MaxScriptLines lines, none a dialogue line and none blank, has
\* parsed to the empty list.
C18_Witness ==
  /\ parsePc = "done"
  /\ parsed = <<>>
  /\ Len(SplitLines(script)) = MaxScriptLines
  /\ \A k \in 1..Len(SplitLines(script)) :
       /\ SplitLines(script)[k] \in OtherLines
       /\ SplitLines(script)[k] # <<>>

\* A line for which the flow gets no clip: its speech request resolved with
\* nothing, or with a text that is not base64.
LineFailed(i) == synthResponse[i] = NoAudioData \/ AtobFails(synthResponse[i])

\* The clips of the lines that did not fail, in line order, each with the
\* time of its own line.
ExpectedClips ==
  LET upTo[i \in 0..Len(parsedLines)] ==
        IF i = 0 THEN <<>>
        ELSE upTo[i - 1] \o
             (IF LineFailed(i) THEN <<>>
              ELSE <<[time |-> parsedLines[i].time,
                      audioData |-> Decode(synthResponse[i])]>>)
  IN upTo[Len(parsedLines)]

\* A flow that asked for speech has ended and its results are on the screen.
FlowWithLinesEnded ==
  /\ flowPc = "idle"
  /\ Len(synthResponse) > 0
  /\ dialogueScript # <<>>

\* C12: when a flow has ended in which some lines failed and some did not,
\* the video's duration being known, an artifact is there and what was
\* stitched are the clips of the lines that did not fail.
C12_PartialFailureTolerated ==
  (/\ FlowWithLinesEnded
   /\ \E i \in 1..Len(synthResponse) : LineFailed(i)
   /\ \E i \in 1..Len(synthResponse) : ~LineFailed(i)
   /\ err \notin {"Timeout waiting for video metadata.",
                  "Could not determine video duration after metadata loaded."}
   /\ videoDuration # <<Infinity>>)
  => /\ generatedAudioUrl # <<>>
     /\ audioClips = ExpectedClips
     /\ clips = StitchArgs(ExpectedClips)

\* C13: whatever the order in which the speech requests come back, the clip
\* list of line 186 and the one given to stitchAudioClips are the clips of
\* the lines that did not fail, in line order with their own lines' times,
\* the artifact is what those clips stitch to, and a flow with a payload that
\* does not decode leaves no artifact.
C13_SameForEveryCompletionOrder ==
  /\ (flowPc \in {"awaitMetadata", "awaitStitch"} \/ audioClips # <<>>)
       => audioClips = ExpectedClips
  /\ stitchPc # "idle" => clips = StitchArgs(ExpectedClips)
  /\ generatedAudioUrl # <<>>
       => generatedAudioUrl = <<StitchedBlob(StitchArgs(ExpectedClips), totalDuration)>>
  /\ (\E i \in 1..Len(synthResponse) : AtobFails(synthResponse[i]))
       => generatedAudioUrl = <<>>

\* Both lines of a script gave a clip, the second line's request came back
\* first, and the artifact is there.
C13_Witness ==
  /\ flowPc = "idle"
  /\ settleOrder = <<2, 1>>
  /\ Len(audioClips) = 2
  /\ audioClips[1].time # audioClips[2].time
  /\ generatedAudioUrl # <<>>

\* C14: when the speech request of every line resolves with nothing,
\* stitchAudioClips is never called and there is never an artifact, and once
\* the flow has ended an error is shown and isLoading is false.
C14_NoAudioProduced ==
  (Len(synthResponse) > 0 /\ \A i \in 1..Len(synthResponse) : LineFailed(i))
  => /\ stitchPc = "idle"
     /\ flowPc \notin {"awaitMetadata", "awaitStitch"}
     /\ generatedAudioUrl = <<>>
     /\ FlowWithLinesEnded => (error # "none" /\ ~isLoading)

\* Two lines, both requests resolved with nothing, the flow has ended with
\* the message of line 189.
C14_Witness ==
  /\ FlowWithLinesEnded
  /\ synthResponse = <<NoAudioData, NoAudioData>>
  /\ settledClips[1].state = "fulfilled"
  /\ settledClips[2].state = "fulfilled"
  /\ error = "Failed to generate audio for any script lines."
  /\ generatedAudioUrl = <<>>

\* C15: the step on which a script arrives that parses to the empty list
\* ends the flow with the message for that case (one for an empty script, one
\* for a script without dialogue lines), issues no speech request, produces
\* no artifact, catches no error and leaves the retry countdown and the retry
\* count as they were.
C15_EmptyScriptReported ==
  [][(flowPc = "awaitScript" /\ apiScript' # <<>>
      /\ ParseScript(apiScript'[1]) = <<>>)
     => /\ error' = IF apiScript'[1] = <<>>
                    THEN "AI did not detect any dialogue in the video."
                    ELSE "AI could not generate a valid script."
        /\ flowPc' = "idle"
        /\ ~isLoading'
        /\ loadingStep' = ""
        /\ synthResponse' = <<>>
        /\ settledClips' = <<>>
        /\ stitchPc' = "idle"
        /\ generatedAudioUrl' = <<>>
        /\ err' = "none"
        /\ retryAfter' = retryAfter
        /\ retryAttempts' = retryAttempts]_vars

\* A script of narration only has arrived and the flow has ended with the
\* message for it.
C15_Witness ==
  /\ flowPc = "idle"
  /\ apiScript # <<>>
  /\ apiScript[1] # <<>>
  /\ ParseScript(apiScript[1]) = <<>>
  /\ dialogueScript = apiScript[1]
  /\ error = "AI could not generate a valid script."
  /\ ~isLoading

C21_MixCommutes ==
  (/\ mixPc = "done"
   /\ Len(tracks) = 2
   /\ Len(tracks[1]) = Len(tracks[2]))
  => mixed = MixAudio(<<tracks[2], tracks[1]>>)

\* mixAudio has returned for two different tracks of two samples each of
\* which the first samples saturate and the second do not.
C21_Witness ==
  /\ mixPc = "done"
  /\ Len(tracks) = 2
  /\ Len(tracks[1]) = 4
  /\ Len(tracks[2]) = 4
  /\ tracks[1] # tracks[2]
  /\ SamplesOf(tracks[1])[1] + SamplesOf(tracks[2])[1] < Int16Min
  /\ SamplesOf(mixed) =
       <<Int16Min, SamplesOf(tracks[1])[2] + SamplesOf(tracks[2])[2]>>

\* C23: whenever a call of stitchAudioClips has ended, by returning or by
\* failing, the AudioContext it created is closed.
C23_TempCtxClosedOnEveryExit ==
  stitchPc \in {"done", "failed"} => tempCtx = "closed"

\* C22: what getVideoDuration has resolved with is a finite, positive
\* duration, and it waits for the metadata whenever the element's duration is
\* missing, NaN or infinite.
C22_ResolvesOnlyFinitePositive ==
  /\ videoDuration # <<>>
       => (videoDuration[1] # Infinity /\ videoDuration[1] > 0)
  /\ flowPc = "awaitStitch" => videoDuration # <<>>

\* C24: every started flow ends (every request being answered), and the step
\* that ends it leaves isLoading false and loadingStep empty with either an
\* error and no artifact or an artifact and no error.
C24_FlowEndsSettled ==
  /\ [][(flowPc # "idle" /\ flowPc' = "idle")
        => /\ isLoading' = FALSE
           /\ loadingStep' = ""
           /\ \/ error' # "none" /\ generatedAudioUrl' = <<>>
              \/ error' = "none" /\ generatedAudioUrl' # <<>>]_vars
  /\ (flowPc # "idle") ~> (flowPc = "idle")

\* A flow that got clips has ended with an artifact and no error.
C24_Witness ==
  /\ flowPc = "idle"
  /\ Len(audioClips) > 0
  /\ generatedAudioUrl # <<>>
  /\ error = "none"
  /\ ~isLoading
  /\ loadingStep = ""
  /\ err = "none"

\* The step on which handleGenerateDialogue catches a quota / 429 error.
RateLimitCaught == flowPc # "idle" /\ flowPc' = "idle" /\ RateLimited(err')

\* The step on which a generation ends with its artifact.
GenerationSucceeds == flowPc # "idle" /\ flowPc' = "idle" /\ generatedAudioUrl' # <<>>

\* A step of resetState: the Reset button or a newly selected video.
StateReset == videoFile' # videoFile /\ dialogueScript' = <<>> /\ error' = "none"

\* C26: a quota / 429 error adds one to retryAttempts and sets retryAfter to
\* min(60, 2^retryAttempts) or, rounded up from a fraction, to
\* min(60, 2^retryAttempts + 1), a whole number in 2..60; no generation starts
\* while retryAfter > 0; retryAfter changes otherwise only by going down by 1
\* from above 0 or to 0 by a reset, stays in 0..60 and comes down to 0;
\* retryAttempts goes back to 0 only by a generation that succeeds or a reset.
C26_RateLimitBackoff ==
  /\ [][/\ RateLimitCaught
             => /\ retryAttempts' = retryAttempts + 1
                /\ \E r \in {0, 1} : retryAfter' = Min(60, 2^(retryAttempts') + r)
                /\ retryAfter' \in 2..60
        /\ (retryAfter > 0 /\ flowPc = "idle") => flowPc' = "idle"
        /\ (retryAfter' # retryAfter /\ ~RateLimitCaught)
             => \/ retryAfter > 0 /\ retryAfter' = retryAfter - 1
                \/ StateReset /\ retryAfter' = 0
        /\ (retryAttempts' # retryAttempts /\ ~RateLimitCaught)
             => /\ retryAttempts' = 0
                /\ GenerationSucceeds \/ StateReset]_vars
  /\ [](retryAfter \in 0..60)
  /\ (retryAfter > 0) ~> (retryAfter = 0)

\* The rate limit error has been caught for the sixth time in a row and the
\* countdown stands at its cap of 60 s.
C26_Witness ==
  /\ flowPc = "idle"
  /\ err = "429"
  /\ retryAttempts = 6
  /\ retryAfter = 60
  /\ error = "API rate limit exceeded."

\* C25: a flow is in flight exactly while isLoading is true, a video is then
\* selected (the uploader is not shown), and no step taken while isLoading is
\* true starts handleGenerateDialogue, resetState or handleFileChange: the
\* flow is not restarted, the video stays, and what resetState clears is
\* changed only by the running flow as it ends.
C25_OneFlowInFlight ==
  /\ [](isLoading <=> flowPc # "idle")
  /\ [](isLoading => videoFile)
  /\ [][isLoading
        => /\ flowPc' = "awaitScript" => flowPc = "awaitScript"
           /\ videoFile' = videoFile
           /\ isLoading' => UNCHANGED <<generatedAudioUrl, error, retryAfter,
                                        retryAttempts>>
           /\ dialogueScript' # dialogueScript => flowPc = "awaitScript"]_vars

\* A flow waits for its speech requests with a video selected and no retry
\* countdown running: only isLoading keeps the Generate button disabled.
C25_Witness ==
  /\ isLoading
  /\ flowPc = "awaitClips"
  /\ videoFile
  /\ retryAfter = 0
  /\ \E i \in 1..Len(settledClips) : settledClips[i].state = "pending"

====
